---- MODULE Spec2Model ----
(***************************************************************************)
(* KMS/DRM video driver of SDL (src/video/kmsdrm/SDL_kmsdrmvideo.c).       *)
(*                                                                         *)
(* Three specifications share the variables of this module:               *)
(*   SpecEnum  device discovery: check_modestting, get_dricount,           *)
(*             get_driindex, KMSDRM_Available                              *)
(*   Spec      display negotiation and teardown: KMSDRM_VideoInit,         *)
(*             KMSDRM_GetDisplayModes, KMSDRM_VideoQuit                    *)
(*   SpecWin   window, framebuffer and page-flip lifecycle:                *)
(*             KMSDRM_CreateWindow, KMSDRM_FBFromBO, KMSDRM_WaitPageFlip,  *)
(*             KMSDRM_FlipHandler, KMSDRM_DestroyWindow                    *)
(*                                                                         *)
(* A C pointer is modelled as a sequence: <<>> is NULL, <<obj>> points to  *)
(* obj.                                                                    *)
(***************************************************************************)
EXTENDS Integers, Sequences, FiniteSets, TLC

VARIABLES
    \* ---- device discovery (SpecEnum)
    dri,          \* the machine: /dev/dri directory, its device nodes, libdrm
    enumOut,      \* the last discovery call: operation, argument, result
    \* ---- negotiation and teardown (Spec)
    kernel,       \* what the kernel reports for the opened card
    phase,        \* position of the driver in its lifecycle
    viddata,      \* SDL_VideoData: devindex, drm_fd, gbm
    dispdata,     \* SDL_DisplayData allocated by KMSDRM_VideoInit and its heap state
    displays,     \* the host's list of registered SDL_VideoDisplay
    sel,          \* locals of KMSDRM_VideoInit at its return
    sys,          \* kernel-side accounting: open descriptors, live objects, calls
    \* ---- windows, framebuffers, page flips (SpecWin)
    window,       \* SDL_Window: driverdata (SDL_WindowData), focus
    bos,          \* gbm buffer objects of the surface: lock state and user data
    drm,          \* kernel framebuffers and the calls that made or removed them
    pcall         \* the running driver call and its position

vars == <<dri, enumOut, kernel, phase, viddata, dispdata, displays, sel, sys,
          window, bos, drm, pcall>>

enumVars == <<dri, enumOut>>
initVars == <<kernel, phase, viddata, dispdata, displays, sel, sys>>
winVars  == <<window, bos, drm, pcall>>

NULL == <<>>
Ptr(obj) == <<obj>>
Deref(p) == p[1]

\* ------------------------------------------------------------------------
\* Bounds of the model
\* ------------------------------------------------------------------------
\* card indices 0..MaxCard-1 may exist under /dev/dri
MaxCard == 2

\* ------------------------------------------------------------------------
\* Device discovery
\* ------------------------------------------------------------------------
ENOENT == 2

DigitChar == <<"0", "1", "2", "3", "4", "5", "6", "7", "8", "9">>

\* "%d" of SDL_snprintf for a non-negative index
RECURSIVE FormatInt(_)
FormatInt(n) ==
    IF n < 10 THEN <<DigitChar[n + 1]>>
    ELSE FormatInt(n \div 10) \o <<DigitChar[(n % 10) + 1]>>

\* the entry name that "%scard%d" names under KMSDRM_DRI_PATH
CardName(devindex) == <<"c", "a", "r", "d">> \o FormatInt(devindex)

\* entries of /dev/dri that are no card
OtherNames == { <<".">>, <<".", ".">>,
                <<"r", "e", "n", "d", "e", "r", "D", "1", "2", "8">>,
                <<"b", "y", "-", "p", "a", "t", "h">> }

\* what a device node is: it opens or not, drmModeGetResources answers
\* NULL or a resource list with its three counts
DeviceNodes ==
    { [openable |-> FALSE, res |-> NULL] ,
      [openable |-> TRUE,  res |-> NULL] }
    \cup
    { [openable |-> TRUE,
       res |-> Ptr([count_connectors |-> c, count_encoders |-> e, count_crtcs |-> r])] :
        c \in 0..1, e \in 0..1, r \in 0..1 }

CardIndices == 0 .. (MaxCard - 1)

\* the machines discovery runs on
Machines ==
    { [isdir |-> TRUE, entries |-> { CardName(i) : i \in DOMAIN nodes } \cup others,
       nodes |-> nodes, libdrm |-> l] :
        nodes \in UNION { [S -> DeviceNodes] : S \in SUBSET CardIndices },
        others \in { {}, OtherNames },
        l \in BOOLEAN }
    \cup
    { [isdir |-> FALSE, entries |-> {}, nodes |-> <<>>, libdrm |-> l] : l \in BOOLEAN }

\* open(device, O_RDWR | O_CLOEXEC) of /dev/dri/card<devindex>
OpensCard(m, devindex) ==
    /\ m.isdir
    /\ CardName(devindex) \in m.entries
    /\ devindex \in DOMAIN m.nodes
    /\ m.nodes[devindex].openable

\* check_modestting with the three counts or-ed instead of and-ed
check_modestting_AnyCount(m, devindex) ==
    LET opened == OpensCard(m, devindex)
        loaded == opened /\ m.libdrm
        resources == IF loaded THEN m.nodes[devindex].res ELSE NULL
        available ==
            /\ resources # NULL
            /\ \/ Deref(resources).count_connectors > 0
               \/ Deref(resources).count_encoders > 0
               \/ Deref(resources).count_crtcs > 0
    IN  [available |-> available,
         opens     |-> IF opened THEN 1 ELSE 0,
         closes    |-> IF opened THEN 1 ELSE 0,
         loads     |-> IF loaded THEN 1 ELSE 0,
         unloads   |-> IF loaded THEN 1 ELSE 0,
         gets      |-> IF resources # NULL THEN 1 ELSE 0,
         frees     |-> IF resources # NULL THEN 1 ELSE 0]

\* check_modestting that returns from inside the query without closing the
\* descriptor when the counts are insufficient
check_modestting_LeaksFd(m, devindex) ==
    LET opened == OpensCard(m, devindex)
        loaded == opened /\ m.libdrm
        resources == IF loaded THEN m.nodes[devindex].res ELSE NULL
        available ==
            /\ resources # NULL
            /\ Deref(resources).count_connectors > 0
            /\ Deref(resources).count_encoders > 0
            /\ Deref(resources).count_crtcs > 0
    IN  [available |-> available,
         opens     |-> IF opened THEN 1 ELSE 0,
         closes    |-> IF opened /\ (available \/ resources = NULL) THEN 1 ELSE 0,
         loads     |-> IF loaded THEN 1 ELSE 0,
         unloads   |-> IF loaded THEN 1 ELSE 0,
         gets      |-> IF resources # NULL THEN 1 ELSE 0,
         frees     |-> IF resources # NULL THEN 1 ELSE 0]

\* check_modestting: the result and the resources it took and gave back
check_modestting(m, devindex) ==
    LET opened == OpensCard(m, devindex)
        loaded == opened /\ m.libdrm
        resources == IF loaded THEN m.nodes[devindex].res ELSE NULL
        available ==
            /\ resources # NULL
            /\ Deref(resources).count_connectors > 0
            /\ Deref(resources).count_encoders > 0
            /\ Deref(resources).count_crtcs > 0
    IN  [available |-> available,
         opens     |-> IF opened THEN 1 ELSE 0,
         closes    |-> IF opened THEN 1 ELSE 0,
         loads     |-> IF loaded THEN 1 ELSE 0,
         unloads   |-> IF loaded THEN 1 ELSE 0,
         gets      |-> IF resources # NULL THEN 1 ELSE 0,
         frees     |-> IF resources # NULL THEN 1 ELSE 0]

\* the filter of get_dricount on one directory entry
IsCardEntry(name) ==
    /\ Len(name) > 4
    /\ SubSeq(name, 1, 4) = <<"c", "a", "r", "d">>

\* get_dricount: the number of entries named card...; 0 when the directory
\* is missing or cannot be opened
get_dricount(m, opendirOK) ==
    IF ~m.isdir THEN 0
    ELSE IF ~opendirOK THEN 0
    ELSE Cardinality({ name \in m.entries : IsCardEntry(name) })

RECURSIVE driindex_scan(_, _, _)
driindex_scan(m, i, devcount) ==
    IF i < devcount
    THEN IF check_modestting(m, i).available THEN i
         ELSE driindex_scan(m, i + 1, devcount)
    ELSE -ENOENT

\* get_driindex
get_driindex(m, opendirOK) == driindex_scan(m, 0, get_dricount(m, opendirOK))

\* KMSDRM_Available
KMSDRM_Available(m, opendirOK) ==
    LET ret == get_driindex(m, opendirOK)
    IN  IF ret >= 0 THEN 1 ELSE ret

NoCall == [op |-> "none", arg |-> -1, ret |-> 0, opendirOK |-> TRUE,
           probe |-> check_modestting([isdir |-> FALSE, entries |-> {},
                                       nodes |-> <<>>, libdrm |-> FALSE], 0)]

notEnumVars == <<kernel, phase, viddata, dispdata, displays, sel, sys,
                 window, bos, drm, pcall>>

CallCheckModesetting ==
    /\ \E devindex \in CardIndices :
        LET r == check_modestting(dri, devindex)
        IN  enumOut' = [op |-> "check_modestting", arg |-> devindex,
                        ret |-> IF r.available THEN 1 ELSE 0,
                        opendirOK |-> TRUE, probe |-> r]
    /\ UNCHANGED <<dri, notEnumVars>>

CallGetDriindex ==
    /\ \E opendirOK \in BOOLEAN :
        enumOut' = [NoCall EXCEPT !.op = "get_driindex",
                                  !.ret = get_driindex(dri, opendirOK),
                                  !.opendirOK = opendirOK]
    /\ UNCHANGED <<dri, notEnumVars>>

CallAvailable ==
    /\ \E opendirOK \in BOOLEAN :
        enumOut' = [NoCall EXCEPT !.op = "KMSDRM_Available",
                                  !.ret = KMSDRM_Available(dri, opendirOK),
                                  !.opendirOK = opendirOK]
    /\ UNCHANGED <<dri, notEnumVars>>


\* ------------------------------------------------------------------------
\* What the kernel reports for the opened card
\* ------------------------------------------------------------------------
\* lengths of the connector, encoder and CRTC lists of drmModeRes
MaxConnectors == 2
MaxEncoders == 2
MaxCrtcs == 2

ModeA == [hdisplay |-> 1920, vdisplay |-> 1080, vrefresh |-> 60]
ModeB == [hdisplay |-> 1280, vdisplay |-> 720,  vrefresh |-> 50]
ModeC == [hdisplay |-> 640,  vdisplay |-> 480,  vrefresh |-> 75]
ModeZero == [hdisplay |-> 0, vdisplay |-> 0, vrefresh |-> 0]

\* drmModeConnector objects; connector ids are positive kernel object ids
ConnectorKinds == {"unqueryable", "disconnected", "nomodes",
                   "current7", "supports5", "noencoder"}

ConnectorId(i) == 20 + i

ConnectorObj(kind, id) ==
    CASE kind = "unqueryable"  -> NULL
      [] kind = "disconnected" ->
            Ptr([connector_id |-> id, connection |-> "DRM_MODE_DISCONNECTED",
                 modes |-> <<ModeA>>, encoder_id |-> 0, encoders |-> <<5>>])
      [] kind = "nomodes" ->
            Ptr([connector_id |-> id, connection |-> "DRM_MODE_CONNECTED",
                 modes |-> <<>>, encoder_id |-> 0, encoders |-> <<5>>])
      [] kind = "current7" ->
            Ptr([connector_id |-> id, connection |-> "DRM_MODE_CONNECTED",
                 modes |-> <<ModeB, ModeA, ModeC>>, encoder_id |-> 7,
                 encoders |-> <<7, 5>>])
      [] kind = "supports5" ->
            Ptr([connector_id |-> id, connection |-> "DRM_MODE_CONNECTED",
                 modes |-> <<ModeC>>, encoder_id |-> 0, encoders |-> <<5>>])
      [] kind = "noencoder" ->
            Ptr([connector_id |-> id, connection |-> "DRM_MODE_CONNECTED",
                 modes |-> <<ModeC, ModeB>>, encoder_id |-> 0, encoders |-> <<>>])

ConnectorLists ==
    { [i \in DOMAIN kinds |-> [id |-> ConnectorId(i),
                               obj |-> ConnectorObj(kinds[i], ConnectorId(i))]] :
        kinds \in UNION { [1..n -> ConnectorKinds] : n \in 0..MaxConnectors } }

\* drmModeEncoder objects
EncoderSlots ==
    { [id |-> 5, obj |-> o] :
        o \in { NULL, Ptr([encoder_id |-> 5, crtc_id |-> 0, possible_crtcs |-> 3]) } }
    \cup
    { [id |-> 7, obj |-> o] :
        o \in { NULL,
                Ptr([encoder_id |-> 7, crtc_id |-> 31, possible_crtcs |-> 1]),
                Ptr([encoder_id |-> 7, crtc_id |-> 0,  possible_crtcs |-> 2]),
                Ptr([encoder_id |-> 7, crtc_id |-> 0,  possible_crtcs |-> 0]) } }

\* drmModeCrtc objects
CrtcSlots ==
    { [id |-> 31, obj |-> o] :
        o \in { NULL,
                Ptr([crtc_id |-> 31, buffer_id |-> 90, x |-> 0, y |-> 0,
                     mode_valid |-> 1, mode |-> ModeA]),
                Ptr([crtc_id |-> 31, buffer_id |-> 0, x |-> 0, y |-> 0,
                     mode_valid |-> 0, mode |-> ModeZero]) } }
    \cup
    { [id |-> 32, obj |-> Ptr([crtc_id |-> 32, buffer_id |-> 91, x |-> 8, y |-> 16,
                               mode_valid |-> 1, mode |-> ModeB])] }

\* lists of at most n slots in which no id occurs twice
SlotLists(slots, n) ==
    { s \in UNION { [1..m -> slots] : m \in 0..n } :
        \A i, j \in DOMAIN s : i # j => s[i].id # s[j].id }

Kernels ==
    { [connectors |-> c, encoders |-> e, crtcs |-> r] :
        c \in ConnectorLists,
        e \in SlotLists(EncoderSlots, MaxEncoders),
        r \in SlotLists(CrtcSlots, MaxCrtcs) }

NoKernel == [connectors |-> <<>>, encoders |-> <<>>, crtcs |-> <<>>]

\* the kernel's answer to a query by object id (drmModeGetConnector,
\* drmModeGetEncoder, drmModeGetCrtc): NULL for an id it does not know
Lookup(list, id) ==
    LET hits == { i \in DOMAIN list : list[i].id = id }
    IN  IF hits = {} THEN NULL ELSE list[CHOOSE i \in hits : TRUE].obj

\* ------------------------------------------------------------------------
\* Kernel-side accounting
\* ------------------------------------------------------------------------
Tok(kind, id) == [kind |-> kind, id |-> id]

SysInit == [openFds |-> {}, opens |-> 0, closes |-> 0,
            gbmLive |-> FALSE, gbmDestroys |-> 0,
            held |-> {}, gets |-> 0, frees |-> 0, badFree |-> FALSE,
            setCrtc |-> <<>>, nullDeref |-> FALSE, quits |-> 0,
            trace |-> <<>>]

\* one releasing or restoring call, as the trace of the accounting records it
Op(op, kind) == [op |-> op, kind |-> kind]

SysGet(s, tok) == [s EXCEPT !.held = @ \cup {tok}, !.gets = @ + 1]

SysFree(s, tok) ==
    [s EXCEPT !.held = @ \ {tok}, !.frees = @ + 1,
              !.badFree = @ \/ tok \notin s.held,
              !.trace = Append(@, Op("free", tok.kind))]

SysClose(s, fd) ==
    [s EXCEPT !.openFds = @ \ {fd}, !.closes = @ + 1,
              !.badFree = @ \/ fd \notin s.openFds,
              !.trace = Append(@, Op("close", "fd"))]

SysGbmDestroy(s) ==
    [s EXCEPT !.gbmLive = FALSE, !.gbmDestroys = @ + 1,
              !.badFree = @ \/ ~s.gbmLive,
              !.trace = Append(@, Op("gbm_device_destroy", "gbm"))]


\* ------------------------------------------------------------------------
\* KMSDRM_VideoInit
\* ------------------------------------------------------------------------
\* descriptors open() may hand out
FdChoices == {0, 3}

GbmDevice == Ptr("gbm_device")

\* SDL_VideoData as KMSDRM_CreateDevice leaves it
ViddataInit == [devindex |-> 0, drm_fd |-> -1, gbm |-> NULL]

\* SDL_DisplayData: "none" before SDL_calloc, "live" after it, "freed" after SDL_free
DispdataNone == [heap |-> "none", conn_id |-> 0, crtc_id |-> 0, mode |-> ModeZero,
                 saved_crtc |-> NULL]
DispdataCalloc == [DispdataNone EXCEPT !.heap = "live"]
DispdataFreed == [DispdataNone EXCEPT !.heap = "freed"]

SelNone == [ret |-> 0, error |-> "", resources |-> FALSE, connector |-> NULL,
            encoder |-> NULL]

\* a connector loop that keeps the connectors it skips
RECURSIVE ScanConnectors_KeepsSkipped(_, _, _)
ScanConnectors_KeepsSkipped(k, i, s) ==
    IF i > Len(k.connectors) THEN [i |-> i, connector |-> NULL, sys |-> s]
    ELSE LET id == k.connectors[i].id
             connector == Lookup(k.connectors, id)
         IN  IF connector = NULL THEN ScanConnectors_KeepsSkipped(k, i + 1, s)
             ELSE LET s1 == SysGet(s, Tok("connector", id))
                  IN  IF /\ Deref(connector).connection = "DRM_MODE_CONNECTED"
                         /\ Len(Deref(connector).modes) > 0
                      THEN [i |-> i, connector |-> connector, sys |-> s1]
                      ELSE ScanConnectors_KeepsSkipped(k, i + 1, s1)

\* the connector loop: first connector that is connected and has modes;
\* i is the index the loop stops at (1-based), connector the local at that point
RECURSIVE ScanConnectors(_, _, _)
ScanConnectors(k, i, s) ==
    IF i > Len(k.connectors) THEN [i |-> i, connector |-> NULL, sys |-> s]
    ELSE LET id == k.connectors[i].id
             connector == Lookup(k.connectors, id)
         IN  IF connector = NULL THEN ScanConnectors(k, i + 1, s)
             ELSE LET s1 == SysGet(s, Tok("connector", id))
                  IN  IF /\ Deref(connector).connection = "DRM_MODE_CONNECTED"
                         /\ Len(Deref(connector).modes) > 0
                      THEN [i |-> i, connector |-> connector, sys |-> s1]
                      ELSE ScanConnectors(k, i + 1, SysFree(s1, Tok("connector", id)))

\* the test of the encoder loop on one encoder
EncoderFound(encoder, connector) ==
    \/ encoder.encoder_id = connector.encoder_id
    \/ \E j \in 1..Len(connector.encoders) : connector.encoders[j] = encoder.encoder_id

\* the encoder loop
RECURSIVE ScanEncoders(_, _, _, _)
ScanEncoders(k, connector, i, s) ==
    IF i > Len(k.encoders) THEN [i |-> i, encoder |-> NULL, sys |-> s]
    ELSE LET id == k.encoders[i].id
             encoder == Lookup(k.encoders, id)
         IN  IF encoder = NULL THEN ScanEncoders(k, connector, i + 1, s)
             ELSE LET s1 == SysGet(s, Tok("encoder", id))
                  IN  IF EncoderFound(Deref(encoder), connector)
                      THEN [i |-> i, encoder |-> encoder, sys |-> s1]
                      ELSE ScanEncoders(k, connector, i + 1,
                                        SysFree(s1, Tok("encoder", id)))

\* the bit test shifted by one: encoder->possible_crtcs & (1 << (i + 1))
BitSet_ShiftedByOne(mask, i) == (mask \div (2 ^ (i + 1))) % 2 = 1

\* encoder->possible_crtcs & (1 << i)
BitSet(mask, i) == (mask \div (2 ^ i)) % 2 = 1

\* index (0-based) of the first CRTC of the list whose bit is set, or count
RECURSIVE FirstPossibleCrtc(_, _, _)
FirstPossibleCrtc(possible_crtcs, i, count) ==
    IF i >= count THEN count
    ELSE IF BitSet(possible_crtcs, i) THEN i
    ELSE FirstPossibleCrtc(possible_crtcs, i + 1, count)

\* drmModeGetCrtc and its accounting
GetCrtc(k, crtc_id, s) ==
    LET crtc == Lookup(k.crtcs, crtc_id)
    IN  [crtc |-> crtc,
         sys |-> IF crtc = NULL THEN s ELSE SysGet(s, Tok("crtc", crtc_id))]

\* CRTC selection: the encoder (its crtc_id possibly reassigned) and saved_crtc
SelectCrtc(k, encoder, s) ==
    LET first == GetCrtc(k, encoder.crtc_id, s)
        i == FirstPossibleCrtc(encoder.possible_crtcs, 0, Len(k.crtcs))
    IN  IF first.crtc # NULL \/ i >= Len(k.crtcs)
        THEN [encoder |-> encoder, saved_crtc |-> first.crtc, sys |-> first.sys]
        ELSE LET crtc_id == k.crtcs[i + 1].id
                 second == GetCrtc(k, crtc_id, first.sys)
             IN  [encoder |-> [encoder EXCEPT !.crtc_id = crtc_id],
                  saved_crtc |-> second.crtc, sys |-> second.sys]

\* mode resolution that never falls back to the connector's first mode
ResolveMode_IgnoresValidity(saved_crtc, connector) == saved_crtc.mode

\* mode resolution
ResolveMode(saved_crtc, connector) ==
    IF saved_crtc.mode_valid = 0 THEN connector.modes[1] ELSE saved_crtc.mode

\* the SDL_DisplayMode made from a drmModeModeInfo
DisplayModeOf(mode) ==
    [w |-> mode.hdisplay, h |-> mode.vdisplay, refresh_rate |-> mode.vrefresh,
     format |-> "SDL_PIXELFORMAT_ARGB8888", driverdata |-> NULL]

\* "if (p) free(p)" on the accounting
FreeIf(held, s, tok) == IF held THEN SysFree(s, tok) ELSE s
GbmDestroyIf(live, s) == IF live THEN SysGbmDestroy(s) ELSE s
CloseIf(open, s, fd) == IF open THEN SysClose(s, fd) ELSE s

IdOf(p, field) == IF p = NULL THEN 0 ELSE Deref(p)[field]

\* the frees of the cleanup label that every goto reaches
CleanupLocals(f) ==
    FreeIf(f.resources,
           FreeIf(f.connector # NULL,
                  FreeIf(f.encoder # NULL, f.sys,
                         Tok("encoder", IdOf(f.encoder, "encoder_id"))),
                  Tok("connector", IdOf(f.connector, "connector_id"))),
           Tok("resources", 0))

\* the complete cleanup without the close of the device descriptor
CleanupError_KeepsFd(f, s) ==
    GbmDestroyIf(f.viddata.gbm # NULL,
                 FreeIf(f.dispdata.saved_crtc # NULL, s,
                        Tok("crtc", IdOf(f.dispdata.saved_crtc, "crtc_id"))))

\* the "Error (complete) cleanup" block, s being the accounting before it
CleanupError(f, s) ==
    CloseIf(f.viddata.drm_fd >= 0,
            GbmDestroyIf(f.viddata.gbm # NULL,
                         FreeIf(f.dispdata.saved_crtc # NULL, s,
                                Tok("crtc", IdOf(f.dispdata.saved_crtc, "crtc_id")))),
            f.viddata.drm_fd)

\* the cleanup label: f holds the locals and the driver state reached so far
Cleanup(f) ==
    IF f.ret # 0
    THEN [f EXCEPT !.sys = CleanupError(f, CleanupLocals(f)),
                   !.viddata = [@ EXCEPT !.gbm = NULL, !.drm_fd = -1],
                   !.dispdata = DispdataFreed]
    ELSE [f EXCEPT !.sys = CleanupLocals(f)]

\* the locals and driver state at entry, after SDL_calloc of dispdata succeeded
Frame(vd, s, k) ==
    [ret |-> 0, error |-> "", resources |-> FALSE, connector |-> NULL,
     encoder |-> NULL, viddata |-> vd, dispdata |-> DispdataCalloc,
     displays |-> <<>>, sys |-> s, kernel |-> k]

\* ret = SDL_SetError(msg); goto cleanup
Fail(f, msg) == Cleanup([f EXCEPT !.ret = -1, !.error = msg])

\* SDL_AddVideoDisplay of the one display, both modes the resolved mode
RegisterDisplay(f, mode) ==
    [f EXCEPT !.dispdata.crtc_id = Deref(f.encoder).crtc_id,
              !.dispdata.mode = mode,
              !.displays = Append(@, [desktop_mode |-> DisplayModeOf(mode),
                                      current_mode |-> DisplayModeOf(mode),
                                      driverdata |-> "dispdata",
                                      display_modes |-> {}])]

\* after CRTC selection: sc is its outcome
AfterCrtc(f, sc) ==
    IF sc.saved_crtc = NULL
    THEN Fail([f EXCEPT !.encoder = Ptr(sc.encoder), !.sys = sc.sys],
              "No CRTC found.")
    ELSE RegisterDisplay([f EXCEPT !.encoder = Ptr(sc.encoder), !.sys = sc.sys,
                                   !.dispdata.saved_crtc = sc.saved_crtc],
                         ResolveMode(Deref(sc.saved_crtc), Deref(f.connector)))

\* after the encoder loop: es is its outcome
AfterEncoders(f, es) ==
    IF es.i = Len(f.kernel.encoders) + 1
    THEN Fail([f EXCEPT !.encoder = es.encoder, !.sys = es.sys],
              "No connected encoder found.")
    ELSE AfterCrtc([f EXCEPT !.encoder = es.encoder, !.sys = es.sys],
                   SelectCrtc(f.kernel, Deref(es.encoder), es.sys))

\* after the connector loop: cs is its outcome
AfterConnectors(f, cs) ==
    IF cs.i = Len(f.kernel.connectors) + 1
    THEN Fail([f EXCEPT !.connector = cs.connector, !.sys = cs.sys],
              "No currently active connector found.")
    ELSE AfterEncoders([f EXCEPT !.connector = cs.connector, !.sys = cs.sys,
                                 !.dispdata.conn_id = Deref(cs.connector).connector_id],
                       ScanEncoders(f.kernel, Deref(cs.connector), 1, cs.sys))

\* negotiation from drmModeGetResources on; k is what the kernel answers
Negotiate(f, k) ==
    AfterConnectors([f EXCEPT !.resources = TRUE, !.kernel = k,
                              !.sys = SysGet(f.sys, Tok("resources", 0))],
                    ScanConnectors(k, 1, SysGet(f.sys, Tok("resources", 0))))

\* what the environment decides during one KMSDRM_VideoInit
InitInputs ==
    { [dispdataAlloc |-> FALSE, devnameAlloc |-> TRUE, fd |-> -1, gbmOK |-> FALSE,
       resOK |-> FALSE, kernel |-> NoKernel],
      [dispdataAlloc |-> TRUE, devnameAlloc |-> FALSE, fd |-> -1, gbmOK |-> FALSE,
       resOK |-> FALSE, kernel |-> NoKernel],
      [dispdataAlloc |-> TRUE, devnameAlloc |-> TRUE, fd |-> -1, gbmOK |-> FALSE,
       resOK |-> FALSE, kernel |-> NoKernel] }
    \cup
    { [dispdataAlloc |-> TRUE, devnameAlloc |-> TRUE, fd |-> fd, gbmOK |-> g,
       resOK |-> FALSE, kernel |-> NoKernel] : fd \in FdChoices, g \in BOOLEAN }
    \cup
    { [dispdataAlloc |-> TRUE, devnameAlloc |-> TRUE, fd |-> fd, gbmOK |-> TRUE,
       resOK |-> TRUE, kernel |-> k] : fd \in FdChoices, k \in Kernels }

\* after gbm_create_device
AfterGbm(f, in) ==
    IF f.viddata.gbm = NULL THEN Fail(f, "Couldn't create gbm device.")
    ELSE IF ~in.resOK THEN Fail(f, "drmModeGetResources(%d) failed")
    ELSE Negotiate(f, in.kernel)

\* after open()
AfterOpen(f, in) ==
    IF f.viddata.drm_fd < 0 THEN Fail(f, "Could not open /dev/dri/card%d.")
    ELSE IF in.gbmOK
    THEN AfterGbm([f EXCEPT !.viddata.gbm = GbmDevice, !.sys.gbmLive = TRUE], in)
    ELSE AfterGbm(f, in)

\* open(devname, O_RDWR | O_CLOEXEC) on the accounting
SysOpen(s, fd) ==
    IF fd >= 0 THEN [s EXCEPT !.openFds = @ \cup {fd}, !.opens = @ + 1] ELSE s

\* KMSDRM_VideoInit as a function of the driver state and the environment
KMSDRM_VideoInit(vd, s, in) ==
    IF ~in.dispdataAlloc
    THEN [Frame(vd, s, NoKernel) EXCEPT !.ret = -1, !.error = "Out of memory",
                                        !.dispdata = DispdataNone]
    ELSE IF ~in.devnameAlloc
    THEN Fail(Frame(vd, s, NoKernel), "Out of memory")
    ELSE AfterOpen([Frame(vd, s, NoKernel) EXCEPT !.viddata.drm_fd = in.fd,
                                                  !.sys = SysOpen(s, in.fd)], in)

SelOf(f) == [ret |-> f.ret, error |-> f.error, resources |-> f.resources,
             connector |-> f.connector, encoder |-> f.encoder]

VideoInit ==
    /\ phase = "created"
    /\ \E in \in InitInputs :
        LET f == KMSDRM_VideoInit(viddata, sys, in)
        IN  /\ viddata' = f.viddata
            /\ dispdata' = f.dispdata
            /\ displays' = f.displays
            /\ sys' = f.sys
            /\ kernel' = f.kernel
            /\ sel' = SelOf(f)
            /\ phase' = IF f.ret = 0 THEN "inited" ELSE "initfailed"
    /\ UNCHANGED <<enumVars, winVars>>

\* KMSDRM_GetDisplayModes: SDL_AddDisplayMode of the display's current mode
KMSDRM_GetDisplayModes(display) ==
    [display EXCEPT !.display_modes = @ \cup {display.current_mode}]

GetDisplayModes ==
    /\ phase = "inited"
    /\ \E d \in DOMAIN displays :
        displays' = [displays EXCEPT ![d] = KMSDRM_GetDisplayModes(@)]
    /\ UNCHANGED <<kernel, phase, viddata, dispdata, sel, sys, enumVars, winVars>>


\* ------------------------------------------------------------------------
\* KMSDRM_VideoQuit
\* ------------------------------------------------------------------------
\* calls of KMSDRM_VideoQuit the host makes on one device
MaxQuits == 2

\* SDL_GetDisplayDriverData(0): the driver data of display 0, NULL without one
GetDisplayDriverData0(ds, dd) ==
    IF Len(ds) >= 1 /\ ds[1].driverdata = "dispdata" THEN Ptr(dd) ELSE NULL

\* the restore call made with the resolved mode instead of the saved one
RestoreCall_ResolvedMode(vd, dd, ok) ==
    LET crtc == Deref(dd.saved_crtc)
    IN  [fd |-> vd.drm_fd, crtc_id |-> crtc.crtc_id, buffer_id |-> crtc.buffer_id,
         x |-> crtc.x, y |-> crtc.y, connectors |-> <<dd.conn_id>>, count |-> 1,
         mode |-> dd.mode, ok |-> ok]

\* the arguments of the drmModeSetCrtc call that restores the saved CRTC
RestoreCall(vd, dd, ok) ==
    LET crtc == Deref(dd.saved_crtc)
    IN  [fd |-> vd.drm_fd, crtc_id |-> crtc.crtc_id, buffer_id |-> crtc.buffer_id,
         x |-> crtc.x, y |-> crtc.y, connectors |-> <<dd.conn_id>>, count |-> 1,
         mode |-> crtc.mode, ok |-> ok]

\* a teardown that closes the descriptor before it destroys the allocator
QuitDevice_ClosesBeforeGbm(vd, s) ==
    [viddata |-> [vd EXCEPT !.gbm = NULL, !.drm_fd = -1],
     sys |-> GbmDestroyIf(vd.gbm # NULL, CloseIf(vd.drm_fd >= 0, s, vd.drm_fd))]

\* the part of KMSDRM_VideoQuit after the saved-CRTC block
QuitDevice(vd, s) ==
    [viddata |-> [vd EXCEPT !.gbm = NULL, !.drm_fd = -1],
     sys |-> CloseIf(vd.drm_fd >= 0, GbmDestroyIf(vd.gbm # NULL, s), vd.drm_fd)]

\* the saved-CRTC block of KMSDRM_VideoQuit on the accounting
RestoreCrtc(vd, dd, s, setCrtcOK) ==
    IF dd.saved_crtc = NULL THEN s
    ELSE SysFree(IF vd.drm_fd >= 0 /\ dd.conn_id > 0
                 THEN [s EXCEPT !.setCrtc = Append(@, RestoreCall(vd, dd, setCrtcOK)),
                                !.trace = Append(@, Op("drmModeSetCrtc", "crtc"))]
                 ELSE s,
                 Tok("crtc", Deref(dd.saved_crtc).crtc_id))

\* KMSDRM_VideoQuit with dispdata present; setCrtcOK is the kernel's answer
\* to the restore
KMSDRM_VideoQuit(vd, dd, s, setCrtcOK) ==
    [viddata |-> QuitDevice(vd, s).viddata,
     dispdata |-> [dd EXCEPT !.saved_crtc = NULL],
     sys |-> QuitDevice(vd, RestoreCrtc(vd, dd, s, setCrtcOK)).sys]

\* the host calls quit once init has returned; a display is registered
VideoQuit ==
    /\ phase \in {"inited", "quit"}
    /\ sys.quits < MaxQuits
    /\ GetDisplayDriverData0(displays, dispdata) # NULL
    /\ \E setCrtcOK \in BOOLEAN :
        LET q == KMSDRM_VideoQuit(viddata, dispdata, sys, setCrtcOK)
        IN  /\ viddata' = q.viddata
            /\ dispdata' = q.dispdata
            /\ sys' = [q.sys EXCEPT !.quits = @ + 1]
    /\ phase' = "quit"
    /\ UNCHANGED <<kernel, displays, sel, enumVars, winVars>>

\* quit with no display registered: dispdata is NULL and dispdata->saved_crtc
\* reads through it. The read faults, or yields NULL, or yields garbage that
\* is then passed to drmModeFreeCrtc.
VideoQuitNoDisplay ==
    /\ phase \in {"initfailed", "quit"}
    /\ sys.quits < MaxQuits
    /\ GetDisplayDriverData0(displays, dispdata) = NULL
    /\ \E outcome \in {"fault", "reads_null", "reads_garbage"} :
        LET q == QuitDevice(viddata, sys)
        IN  IF outcome = "fault"
            THEN /\ phase' = "crashed"
                 /\ sys' = [sys EXCEPT !.nullDeref = TRUE, !.quits = @ + 1]
                 /\ UNCHANGED viddata
            ELSE /\ phase' = "quit"
                 /\ viddata' = q.viddata
                 /\ sys' = [q.sys EXCEPT !.nullDeref = TRUE, !.quits = @ + 1,
                                         !.badFree = @ \/ outcome = "reads_garbage"]
    /\ UNCHANGED <<kernel, dispdata, displays, sel, enumVars, winVars>>

\* ------------------------------------------------------------------------
\* Framebuffers of buffer objects
\* ------------------------------------------------------------------------
\* buffer objects of one gbm surface
MaxBuffers == 2
Buffers == 1..MaxBuffers

\* framebuffer ids of the kernel (never 0); it hands out the lowest free one
FbIds == { 40 + n : n \in 0..MaxBuffers }

LowestFree(fbs) == CHOOSE id \in FbIds \ fbs : \A other \in FbIds \ fbs : id <= other

\* a buffer object as gbm creates it: no user data, no destroy hook
BoFresh == [locked |-> FALSE, user_data |-> NULL, destroy_cb |-> "none"]

DrmInit == [fbs |-> {}, rmFB |-> <<>>, egl_data |-> FALSE,
            gsLive |-> FALSE, eglLive |-> FALSE, windataLive |-> FALSE]

\* the record of a KMSDRM_FBFromBO call: the buffer, its user data before
\* the call, the fb_info returned, whether drmModeAddFB was called
NoFbCall == [bo |-> 0, had |-> NULL, ret |-> NULL, addfb |-> FALSE]

\* what the environment decides during one KMSDRM_FBFromBO
FBInputs(d) ==
    { [alloc |-> FALSE, addfbOK |-> FALSE, fb_id |-> 0],
      [alloc |-> TRUE,  addfbOK |-> FALSE, fb_id |-> 0] }
    \cup
    (IF FbIds \ d.fbs = {} THEN {}
     ELSE { [alloc |-> TRUE, addfbOK |-> TRUE, fb_id |-> LowestFree(d.fbs)] })

\* a KMSDRM_FBFromBO that does not look for an existing framebuffer
KMSDRM_FBFromBO_AlwaysCreates(vd, bo, fbs, in) ==
    IF ~in.alloc
    THEN [ret |-> NULL, bo |-> bo, addfb |-> FALSE, fbs |-> fbs]
    ELSE IF ~in.addfbOK
    THEN [ret |-> NULL, bo |-> bo, addfb |-> TRUE, fbs |-> fbs]
    ELSE [ret |-> Ptr([drm_fd |-> vd.drm_fd, fb_id |-> in.fb_id]),
          bo |-> [bo EXCEPT !.user_data =
                                Ptr([drm_fd |-> vd.drm_fd, fb_id |-> in.fb_id]),
                            !.destroy_cb = "KMSDRM_FBDestroyCallback"],
          addfb |-> TRUE,
          fbs |-> fbs \cup {in.fb_id}]

\* a KMSDRM_FBFromBO that attaches the metadata before drmModeAddFB and
\* leaves it attached when the call fails
KMSDRM_FBFromBO_HooksFailedAttempt(vd, bo, fbs, in) ==
    IF bo.user_data # NULL
    THEN [ret |-> bo.user_data, bo |-> bo, addfb |-> FALSE, fbs |-> fbs]
    ELSE IF ~in.alloc
    THEN [ret |-> NULL, bo |-> bo, addfb |-> FALSE, fbs |-> fbs]
    ELSE IF ~in.addfbOK
    THEN [ret |-> NULL,
          bo |-> [bo EXCEPT !.user_data = Ptr([drm_fd |-> vd.drm_fd, fb_id |-> 0]),
                            !.destroy_cb = "KMSDRM_FBDestroyCallback"],
          addfb |-> TRUE, fbs |-> fbs]
    ELSE [ret |-> Ptr([drm_fd |-> vd.drm_fd, fb_id |-> in.fb_id]),
          bo |-> [bo EXCEPT !.user_data =
                                Ptr([drm_fd |-> vd.drm_fd, fb_id |-> in.fb_id]),
                            !.destroy_cb = "KMSDRM_FBDestroyCallback"],
          addfb |-> TRUE,
          fbs |-> fbs \cup {in.fb_id}]

\* KMSDRM_FBFromBO on buffer object bo: the returned fb_info, the buffer
\* object afterwards, whether drmModeAddFB was called, the kernel's
\* framebuffers afterwards
KMSDRM_FBFromBO(vd, bo, fbs, in) ==
    IF bo.user_data # NULL
    THEN [ret |-> bo.user_data, bo |-> bo, addfb |-> FALSE, fbs |-> fbs]
    ELSE IF ~in.alloc
    THEN [ret |-> NULL, bo |-> bo, addfb |-> FALSE, fbs |-> fbs]
    ELSE IF ~in.addfbOK
    THEN [ret |-> NULL, bo |-> bo, addfb |-> TRUE, fbs |-> fbs]
    ELSE [ret |-> Ptr([drm_fd |-> vd.drm_fd, fb_id |-> in.fb_id]),
          bo |-> [bo EXCEPT !.user_data =
                                Ptr([drm_fd |-> vd.drm_fd, fb_id |-> in.fb_id]),
                            !.destroy_cb = "KMSDRM_FBDestroyCallback"],
          addfb |-> TRUE,
          fbs |-> fbs \cup {in.fb_id}]

\* a release hook that frees the metadata without drmModeRmFB
KMSDRM_FBDestroyCallback_NoRmFB(data) == <<>>

\* KMSDRM_FBDestroyCallback on the user data of a buffer being destroyed: the
\* framebuffer ids passed to drmModeRmFB
KMSDRM_FBDestroyCallback(data) ==
    IF data # NULL /\ Deref(data).drm_fd >= 0 /\ Deref(data).fb_id # 0
    THEN <<Deref(data).fb_id>>
    ELSE <<>>

\* gbm destroys the buffer objects b..MaxBuffers of a surface, running each
\* one's destroy hook: the drmModeRmFB calls in order
RECURSIVE DestroyBuffers(_, _)
DestroyBuffers(bs, b) ==
    IF b > Len(bs) THEN <<>>
    ELSE (IF bs[b].destroy_cb = "KMSDRM_FBDestroyCallback"
          THEN KMSDRM_FBDestroyCallback(bs[b].user_data) ELSE <<>>)
         \o DestroyBuffers(bs, b + 1)

SeqRange(q) == { q[i] : i \in DOMAIN q }

\* ------------------------------------------------------------------------
\* Page flips
\* ------------------------------------------------------------------------
\* timeouts the callers of KMSDRM_WaitPageFlip pass
Timeouts == {-1, 0, 16}

\* what poll() may report on the device descriptor; no revents means the
\* timeout ran out, which an unbounded wait never does
PollOutcomes(timeout) ==
    { [ret |-> -1, revents |-> {}, event |-> "none"] }
    \cup
    { [ret |-> 1, revents |-> r, event |-> "none"] :
        r \in { {"POLLHUP"}, {"POLLERR"} } }
    \cup
    { [ret |-> 1, revents |-> r, event |-> e] :
        r \in { {"POLLIN"}, {"POLLIN", "POLLHUP"} },
        e \in {"flip_complete", "other"} }
    \cup
    (IF timeout >= 0 THEN { [ret |-> 0, revents |-> {}, event |-> "none"] } ELSE {})

NoPoll == [ret |-> 0, revents |-> {}, event |-> "none"]

\* KMSDRM_FlipHandler: data points to waiting_for_flip of the window data
KMSDRM_FlipHandler(windata) == [windata EXCEPT !.waiting_for_flip = FALSE]

\* a drmHandleEvent that runs the page flip handler for every event
drmHandleEvent_AnyEvent(windata, event) == KMSDRM_FlipHandler(windata)

\* a drmHandleEvent that never runs the page flip handler
drmHandleEvent_NeverCompletes(windata, event) == windata

\* drmHandleEvent with the event context of KMSDRM_WaitPageFlip: the page
\* flip handler runs for a flip-completion event only
drmHandleEvent(windata, event) ==
    IF event = "flip_complete" THEN KMSDRM_FlipHandler(windata) ELSE windata

\* a loop body that lets drmHandleEvent run on a readable descriptor before
\* it returns on POLLHUP or POLLERR
WaitTurn_DispatchesBeforeHangup(windata, p) ==
    IF p.ret < 0
    THEN [windata |-> windata, next |-> "false", dispatched |-> FALSE]
    ELSE IF p.revents \cap {"POLLHUP", "POLLERR"} # {}
    THEN IF "POLLIN" \in p.revents
         THEN [windata |-> drmHandleEvent(windata, p.event), next |-> "false",
               dispatched |-> TRUE]
         ELSE [windata |-> windata, next |-> "false", dispatched |-> FALSE]
    ELSE IF "POLLIN" \in p.revents
    THEN [windata |-> drmHandleEvent(windata, p.event), next |-> "loop",
          dispatched |-> TRUE]
    ELSE [windata |-> windata, next |-> "false", dispatched |-> FALSE]

\* a loop that polls again when the timeout runs out
WaitTurn_RetriesOnTimeout(windata, p) ==
    IF p.ret < 0
    THEN [windata |-> windata, next |-> "false", dispatched |-> FALSE]
    ELSE IF p.revents \cap {"POLLHUP", "POLLERR"} # {}
    THEN [windata |-> windata, next |-> "false", dispatched |-> FALSE]
    ELSE IF "POLLIN" \in p.revents
    THEN [windata |-> drmHandleEvent(windata, p.event), next |-> "loop",
          dispatched |-> TRUE]
    ELSE [windata |-> windata, next |-> "loop", dispatched |-> FALSE]

\* a loop body that tests POLLIN before POLLHUP and POLLERR
WaitTurn_ReadableFirst(windata, p) ==
    IF p.ret < 0
    THEN [windata |-> windata, next |-> "false", dispatched |-> FALSE]
    ELSE IF "POLLIN" \in p.revents
    THEN [windata |-> drmHandleEvent(windata, p.event), next |-> "loop",
          dispatched |-> TRUE]
    ELSE [windata |-> windata, next |-> "false", dispatched |-> FALSE]

\* one turn of the loop of KMSDRM_WaitPageFlip with waiting_for_flip set, on
\* the outcome p of poll: the window data afterwards, whether the loop goes
\* on ("loop") or the call returns ("false"), whether drmHandleEvent ran
WaitTurn(windata, p) ==
    IF p.ret < 0
    THEN [windata |-> windata, next |-> "false", dispatched |-> FALSE]
    ELSE IF p.revents \cap {"POLLHUP", "POLLERR"} # {}
    THEN [windata |-> windata, next |-> "false", dispatched |-> FALSE]
    ELSE IF "POLLIN" \in p.revents
    THEN [windata |-> drmHandleEvent(windata, p.event), next |-> "loop",
          dispatched |-> TRUE]
    ELSE [windata |-> windata, next |-> "false", dispatched |-> FALSE]

\* the driver call in progress or last returned
NoCallRunning == [fn |-> "none", pc |-> "returned", timeout |-> 0, result |-> "none",
                  polled |-> FALSE, dispatched |-> FALSE, last |-> NoPoll,
                  released |-> <<>>, fb |-> NoFbCall]

Running == pcall.pc # "returned"

Windata == Deref(window.driverdata)

CallWaitPageFlip ==
    /\ ~Running
    /\ window.driverdata # NULL
    /\ \E timeout \in Timeouts :
        pcall' = [NoCallRunning EXCEPT !.fn = "KMSDRM_WaitPageFlip", !.pc = "loop",
                                       !.timeout = timeout]
    /\ UNCHANGED <<window, bos, drm, enumVars, initVars>>

\* a return of KMSDRM_WaitPageFlip that always reports SDL_FALSE
AfterWait_ReportsFailure(c, result) ==
    IF c.fn = "KMSDRM_DestroyWindow"
    THEN [c EXCEPT !.pc = "release_curr", !.result = "SDL_FALSE"]
    ELSE [c EXCEPT !.pc = "returned", !.result = "SDL_FALSE"]

\* where a call goes when KMSDRM_WaitPageFlip returns
AfterWait(c, result) ==
    IF c.fn = "KMSDRM_DestroyWindow"
    THEN [c EXCEPT !.pc = "release_curr", !.result = result]
    ELSE [c EXCEPT !.pc = "returned", !.result = result]

\* the loop test of KMSDRM_WaitPageFlip finds waiting_for_flip clear
WaitPageFlipDone ==
    /\ pcall.pc = "loop"
    /\ ~Windata.waiting_for_flip
    /\ pcall' = AfterWait(pcall, "SDL_TRUE")
    /\ UNCHANGED <<window, bos, drm, enumVars, initVars>>

\* one turn of the loop: poll, then the handling of what it reports
WaitPageFlipTurn ==
    /\ pcall.pc = "loop"
    /\ Windata.waiting_for_flip
    /\ \E p \in PollOutcomes(pcall.timeout) :
        LET t == WaitTurn(Windata, p)
            c == [pcall EXCEPT !.polled = TRUE, !.last = p,
                               !.dispatched = @ \/ t.dispatched]
        IN  /\ window' = [window EXCEPT !.driverdata = Ptr(t.windata)]
            /\ pcall' = IF t.next = "loop" THEN c ELSE AfterWait(c, "SDL_FALSE")
    /\ UNCHANGED <<bos, drm, enumVars, initVars>>

\* ------------------------------------------------------------------------
\* Windows
\* ------------------------------------------------------------------------
\* SDL_WindowData as SDL_calloc leaves it
WindataCalloc == [gs |-> NULL, egl_surface |-> "EGL_NO_SURFACE", curr_bo |-> NULL,
                  next_bo |-> NULL, waiting_for_flip |-> FALSE,
                  double_buffer |-> FALSE]

NoWindow == [driverdata |-> NULL, w |-> 0, h |-> 0, flags |-> {},
             mouse_focus |-> FALSE, keyboard_focus |-> FALSE]

GbmSurface == Ptr("gbm_surface")

\* what the environment decides during one KMSDRM_CreateWindow
CreateInputs ==
    [windataAlloc : BOOLEAN, gsOK : BOOLEAN, glLoadOK : BOOLEAN, eglOK : BOOLEAN,
     double_buffer : BOOLEAN]

\* an error label that frees the window data but leaves the gbm surface
CreateWindowError_KeepsSurface(w, d) ==
    [ret |-> -1, window |-> w, bos |-> <<>>,
     drm |-> [d EXCEPT !.eglLive = FALSE, !.windataLive = FALSE]]

\* the error label of KMSDRM_CreateWindow: surfaces destroyed, windata freed
CreateWindowError(w, d) ==
    [ret |-> -1, window |-> w, bos |-> <<>>,
     drm |-> [d EXCEPT !.gsLive = FALSE, !.eglLive = FALSE, !.windataLive = FALSE]]

\* KMSDRM_CreateWindow on window w showing on display: the return value, the
\* window, the surface's buffer objects and the surfaces afterwards
KMSDRM_CreateWindow(w, display, d, in) ==
    IF ~in.windataAlloc THEN [ret |-> -1, window |-> w, bos |-> <<>>, drm |-> d]
    ELSE
    LET sized == [w EXCEPT !.w = display.desktop_mode.w,
                           !.h = display.desktop_mode.h,
                           !.flags = @ \cup {"SDL_WINDOW_FULLSCREEN",
                                             "SDL_WINDOW_OPENGL"}]
        dgs == [d EXCEPT !.windataLive = TRUE, !.gsLive = in.gsOK]
    IN  IF ~d.egl_data /\ ~in.glLoadOK THEN CreateWindowError(sized, dgs)
        ELSE IF ~in.eglOK
        THEN CreateWindowError(sized, [dgs EXCEPT !.egl_data = TRUE])
        ELSE [ret |-> 0,
              window |-> [sized EXCEPT
                  !.driverdata = Ptr([WindataCalloc EXCEPT
                      !.gs = IF in.gsOK THEN GbmSurface ELSE NULL,
                      !.egl_surface = "egl_surface",
                      !.double_buffer = in.double_buffer]),
                  !.mouse_focus = TRUE,
                  !.keyboard_focus = TRUE],
              bos |-> IF in.gsOK THEN [b \in Buffers |-> BoFresh] ELSE <<>>,
              drm |-> [dgs EXCEPT !.egl_data = TRUE, !.eglLive = TRUE]]

CreateWindow ==
    /\ ~Running
    /\ window.driverdata = NULL
    /\ Len(displays) >= 1
    /\ \E in \in CreateInputs :
        LET r == KMSDRM_CreateWindow(window, displays[1], drm, in)
        IN  /\ window' = r.window
            /\ bos' = r.bos
            /\ drm' = [r.drm EXCEPT !.rmFB = <<>>]
            /\ pcall' = [NoCallRunning EXCEPT
                            !.fn = "KMSDRM_CreateWindow",
                            !.result = IF r.ret = 0 THEN "0" ELSE "-1"]
    /\ UNCHANGED <<enumVars, initVars>>

\* a call of KMSDRM_FBFromBO on a buffer object of the window's surface
CallFBFromBO ==
    /\ ~Running
    /\ \E b \in DOMAIN bos : \E in \in FBInputs(drm) :
        LET r == KMSDRM_FBFromBO(viddata, bos[b], drm.fbs, in)
        IN  /\ bos' = [bos EXCEPT ![b] = r.bo]
            /\ drm' = [drm EXCEPT !.fbs = r.fbs]
            /\ pcall' = [NoCallRunning EXCEPT
                            !.fn = "KMSDRM_FBFromBO",
                            !.fb = [bo |-> b, had |-> bos[b].user_data,
                                    ret |-> r.ret, addfb |-> r.addfb]]
    /\ UNCHANGED <<window, enumVars, initVars>>

\* gbm_surface_release_buffer
ReleaseBuffer(bs, p) == IF p = NULL THEN bs ELSE [bs EXCEPT ![Deref(p)].locked = FALSE]

\* a presentation request of the host on an idle window: the previous front
\* buffer goes back to the surface, a free buffer is locked as the next
\* front buffer, its framebuffer is looked up with KMSDRM_FBFromBO and a page
\* flip is submitted, which sets waiting_for_flip when the kernel queues it
Present ==
    /\ ~Running
    /\ window.driverdata # NULL
    /\ Windata.gs # NULL
    /\ ~Windata.waiting_for_flip
    /\ \E b \in DOMAIN bos : \E in \in FBInputs(drm) : \E queued \in BOOLEAN :
        LET bs == ReleaseBuffer(bos, Windata.curr_bo)
            r == KMSDRM_FBFromBO(viddata, [bs[b] EXCEPT !.locked = TRUE], drm.fbs, in)
        IN  /\ ~bs[b].locked
            /\ bos' = [bs EXCEPT ![b] = r.bo]
            /\ drm' = [drm EXCEPT !.fbs = r.fbs]
            /\ pcall' = [NoCallRunning EXCEPT
                            !.fn = "KMSDRM_FBFromBO",
                            !.fb = [bo |-> b, had |-> bs[b].user_data,
                                    ret |-> r.ret, addfb |-> r.addfb]]
            /\ window' = [window EXCEPT !.driverdata =
                   Ptr([Windata EXCEPT
                        !.curr_bo = Windata.next_bo,
                        !.next_bo = Ptr(b),
                        !.waiting_for_flip = r.ret # NULL /\ queued])]
    /\ UNCHANGED <<enumVars, initVars>>

\* KMSDRM_DestroyWindow of a window without driver data does nothing
DestroyWindowNoData ==
    /\ ~Running
    /\ window.driverdata = NULL
    /\ pcall' = [NoCallRunning EXCEPT !.fn = "KMSDRM_DestroyWindow"]
    /\ UNCHANGED <<window, bos, drm, enumVars, initVars>>

\* KMSDRM_DestroyWindow enters KMSDRM_WaitPageFlip(_this, windata, -1)
DestroyWindowBegin ==
    /\ ~Running
    /\ window.driverdata # NULL
    /\ pcall' = [NoCallRunning EXCEPT !.fn = "KMSDRM_DestroyWindow", !.pc = "loop",
                                      !.timeout = -1]
    /\ UNCHANGED <<window, bos, drm, enumVars, initVars>>

DestroyReleaseCurr ==
    /\ pcall.pc = "release_curr"
    /\ bos' = ReleaseBuffer(bos, Windata.curr_bo)
    /\ window' = [window EXCEPT !.driverdata = Ptr([Windata EXCEPT !.curr_bo = NULL])]
    /\ pcall' = [pcall EXCEPT !.pc = "release_next",
                              !.released = IF Windata.curr_bo # NULL
                                           THEN Append(@, "curr_bo") ELSE @]
    /\ UNCHANGED <<drm, enumVars, initVars>>

DestroyReleaseNext ==
    /\ pcall.pc = "release_next"
    /\ bos' = ReleaseBuffer(bos, Windata.next_bo)
    /\ window' = [window EXCEPT !.driverdata = Ptr([Windata EXCEPT !.next_bo = NULL])]
    /\ pcall' = [pcall EXCEPT !.pc = "egl_surface",
                              !.released = IF Windata.next_bo # NULL
                                           THEN Append(@, "next_bo") ELSE @]
    /\ UNCHANGED <<drm, enumVars, initVars>>

\* SDL_EGL_MakeCurrent(EGL_NO_SURFACE), SDL_EGL_DestroySurface
DestroyEglSurface ==
    /\ pcall.pc = "egl_surface"
    /\ drm' = IF Windata.egl_surface # "EGL_NO_SURFACE"
              THEN [drm EXCEPT !.eglLive = FALSE] ELSE drm
    /\ pcall' = [pcall EXCEPT !.pc = "gs",
                              !.released = IF Windata.egl_surface # "EGL_NO_SURFACE"
                                           THEN Append(@, "egl_surface") ELSE @]
    /\ UNCHANGED <<window, bos, enumVars, initVars>>

\* gbm_surface_destroy: the surface's buffer objects die with it, each
\* running its destroy hook
DestroyGbmSurface ==
    /\ pcall.pc = "gs"
    /\ IF Windata.gs # NULL
       THEN /\ drm' = [drm EXCEPT !.gsLive = FALSE,
                                  !.rmFB = @ \o DestroyBuffers(bos, 1),
                                  !.fbs = @ \ SeqRange(DestroyBuffers(bos, 1))]
            /\ bos' = <<>>
            /\ window' = [window EXCEPT !.driverdata = Ptr([Windata EXCEPT !.gs = NULL])]
            /\ pcall' = [pcall EXCEPT !.pc = "free", !.released = Append(@, "gs")]
       ELSE /\ pcall' = [pcall EXCEPT !.pc = "free"]
            /\ UNCHANGED <<window, bos, drm>>
    /\ UNCHANGED <<enumVars, initVars>>

\* SDL_free(windata); window->driverdata = NULL
DestroyFree ==
    /\ pcall.pc = "free"
    /\ window' = [window EXCEPT !.driverdata = NULL]
    /\ drm' = [drm EXCEPT !.windataLive = FALSE]
    /\ pcall' = [pcall EXCEPT !.pc = "returned"]
    /\ UNCHANGED <<bos, enumVars, initVars>>

\* ------------------------------------------------------------------------
\* Specifications
\* ------------------------------------------------------------------------
NoMachine == [isdir |-> FALSE, entries |-> {}, nodes |-> <<>>, libdrm |-> FALSE]

\* device discovery
InitEnum ==
    /\ dri \in Machines
    /\ enumOut = NoCall
    /\ kernel = NoKernel
    /\ phase = "created"
    /\ viddata = ViddataInit
    /\ dispdata = DispdataNone
    /\ displays = <<>>
    /\ sel = SelNone
    /\ sys = SysInit
    /\ window = NoWindow
    /\ bos = <<>>
    /\ drm = DrmInit
    /\ pcall = NoCallRunning

NextEnum ==
    \/ CallCheckModesetting
    \/ CallGetDriindex
    \/ CallAvailable

SpecEnum == InitEnum /\ [][NextEnum]_vars

\* negotiation and teardown, from the state KMSDRM_CreateDevice leaves
Init ==
    /\ dri = NoMachine
    /\ enumOut = NoCall
    /\ kernel = NoKernel
    /\ phase = "created"
    /\ viddata = ViddataInit
    /\ dispdata = DispdataNone
    /\ displays = <<>>
    /\ sel = SelNone
    /\ sys = SysInit
    /\ window = NoWindow
    /\ bos = <<>>
    /\ drm = DrmInit
    /\ pcall = NoCallRunning

Next ==
    \/ VideoInit
    \/ GetDisplayModes
    \/ VideoQuit
    \/ VideoQuitNoDisplay

Spec == Init /\ [][Next]_vars

\* the card of the window specification: connector 21 disconnected, connector
\* 22 connected with three modes and current encoder 7, whose CRTC 31 has a
\* valid mode
ScenarioKernel ==
    [connectors |-> << [id |-> ConnectorId(1),
                        obj |-> ConnectorObj("disconnected", ConnectorId(1))],
                       [id |-> ConnectorId(2),
                        obj |-> ConnectorObj("current7", ConnectorId(2))] >>,
     encoders |-> << [id |-> 7,
                      obj |-> Ptr([encoder_id |-> 7, crtc_id |-> 31,
                                   possible_crtcs |-> 1])] >>,
     crtcs |-> << [id |-> 31,
                   obj |-> Ptr([crtc_id |-> 31, buffer_id |-> 90, x |-> 0, y |-> 0,
                                mode_valid |-> 1, mode |-> ModeA])] >>]

\* the driver after KMSDRM_VideoInit succeeded on that card
Inited ==
    KMSDRM_VideoInit(ViddataInit, SysInit,
                     [dispdataAlloc |-> TRUE, devnameAlloc |-> TRUE, fd |-> 3,
                      gbmOK |-> TRUE, resOK |-> TRUE, kernel |-> ScenarioKernel])

\* windows, framebuffers and page flips on an initialised driver
InitWin ==
    /\ dri = NoMachine
    /\ enumOut = NoCall
    /\ kernel = ScenarioKernel
    /\ phase = "inited"
    /\ viddata = Inited.viddata
    /\ dispdata = Inited.dispdata
    /\ displays = Inited.displays
    /\ sel = SelOf(Inited)
    /\ sys = Inited.sys
    /\ window = NoWindow
    /\ bos = <<>>
    /\ drm = DrmInit
    /\ pcall = NoCallRunning

NextWin ==
    \/ CreateWindow
    \/ CallFBFromBO
    \/ Present
    \/ CallWaitPageFlip
    \/ WaitPageFlipDone
    \/ WaitPageFlipTurn
    \/ DestroyWindowNoData
    \/ DestroyWindowBegin
    \/ DestroyReleaseCurr
    \/ DestroyReleaseNext
    \/ DestroyEglSurface
    \/ DestroyGbmSurface
    \/ DestroyFree

SpecWin == InitWin /\ [][NextWin]_vars

\* the kernel delivers the flip completion of a pending flip: a turn of the
\* loop whose poll reports the descriptor readable, without hangup or error,
\* with the flip-completion event to read
FlipCompletes ==
    /\ WaitPageFlipTurn
    /\ pcall'.last.ret > 0
    /\ pcall'.last.revents = {"POLLIN"}
    /\ pcall'.last.event = "flip_complete"

\* the single thread of the driver goes on with the call it is in
CallProceeds ==
    \/ WaitPageFlipDone
    \/ DestroyReleaseCurr
    \/ DestroyReleaseNext
    \/ DestroyEglSurface
    \/ DestroyGbmSurface
    \/ DestroyFree

\* the window lifecycle with a running call that goes on and a kernel that
\* delivers the completion of every flip it queued
SpecWinLive ==
    InitWin /\ [][NextWin]_vars /\ WF_vars(CallProceeds) /\ WF_vars(FlipCompletes)


\* ------------------------------------------------------------------------
\* Properties of negotiation and teardown (Spec)
\* ------------------------------------------------------------------------
InitReturned == phase \in {"inited", "initfailed"}

InitErrors == {"Out of memory", "Could not open /dev/dri/card%d.",
               "Couldn't create gbm device.", "drmModeGetResources(%d) failed",
               "No currently active connector found.",
               "No connected encoder found.", "No CRTC found."}

\* C2: KMSDRM_VideoInit is all-or-nothing. When it returns 0 one display is
\* registered on a live display descriptor with a non-null saved CRTC, the
\* device descriptor is open and the allocator exists. When it fails (every
\* failure branch sets one of the error messages and returns non-zero) the
\* descriptor is closed and reset to -1, the allocator is destroyed and NULL,
\* no CRTC object is held, the display descriptor is not allocated any more
\* and no display is registered.
C2_InitAllOrNothing ==
    /\ phase = "inited" =>
        /\ sel.ret = 0 /\ sel.error = ""
        /\ Len(displays) = 1 /\ displays[1].driverdata = "dispdata"
        /\ dispdata.heap = "live"
        /\ dispdata.saved_crtc # NULL
        /\ Tok("crtc", Deref(dispdata.saved_crtc).crtc_id) \in sys.held
        /\ viddata.drm_fd >= 0 /\ sys.openFds = {viddata.drm_fd}
        /\ viddata.gbm # NULL /\ sys.gbmLive
    /\ phase = "initfailed" =>
        /\ sel.ret # 0 /\ sel.error \in InitErrors
        /\ viddata.drm_fd = -1 /\ sys.openFds = {} /\ sys.closes = sys.opens
        /\ viddata.gbm = NULL /\ ~sys.gbmLive
        /\ { t \in sys.held : t.kind = "crtc" } = {}
        /\ dispdata.heap # "live" /\ dispdata.saved_crtc = NULL
        /\ displays = <<>>
        /\ ~sys.badFree

\* a failed init that had opened the descriptor and created the allocator
C2_Witness ==
    /\ phase = "initfailed"
    /\ sel.error = "No CRTC found."
    /\ sys.opens = 1 /\ sys.closes = 1 /\ sys.gbmDestroys = 1
    /\ viddata.drm_fd = -1

\* the CRTC configuration the kernel reported for the CRTC the descriptor names
CapturedCrtc == Deref(Lookup(kernel.crtcs, dispdata.crtc_id))

\* C3: after a successful init, KMSDRM_VideoQuit issues exactly one
\* drmModeSetCrtc, with the CRTC id, buffer id, position and mode captured in
\* the saved CRTC at init and the negotiated connector as its single
\* connector; whether that call succeeds or fails the teardown is completed.
\* Before quit no such call is made.
C3_RestoreOnce ==
    /\ phase = "inited" => sys.setCrtc = <<>>
    /\ (phase = "quit" /\ sel.ret = 0) =>
        /\ Len(sys.setCrtc) = 1
        /\ sys.setCrtc[1].crtc_id = CapturedCrtc.crtc_id
        /\ sys.setCrtc[1].buffer_id = CapturedCrtc.buffer_id
        /\ sys.setCrtc[1].x = CapturedCrtc.x
        /\ sys.setCrtc[1].y = CapturedCrtc.y
        /\ sys.setCrtc[1].mode = CapturedCrtc.mode
        /\ sys.setCrtc[1].connectors = <<Deref(sel.connector).connector_id>>
        /\ sys.setCrtc[1].count = 1
        /\ dispdata.saved_crtc = NULL
        /\ { t \in sys.held : t.kind = "crtc" } = {}
        /\ viddata.gbm = NULL /\ ~sys.gbmLive
        /\ viddata.drm_fd = -1 /\ sys.openFds = {}

\* quit was called twice after a successful init and the restore failed
C3_Witness ==
    /\ phase = "quit" /\ sel.ret = 0
    /\ sys.quits = 2
    /\ Len(sys.setCrtc) = 1 /\ ~sys.setCrtc[1].ok
    /\ sys.setCrtc[1].mode = ModeZero
    /\ viddata.drm_fd = -1 /\ viddata.gbm = NULL

\* C8: on every return of KMSDRM_VideoInit the resource list, the selected
\* connector and the selected encoder obtained during the call have been
\* freed; none is still held.
C8_IntermediatesReleased ==
    InitReturned =>
        /\ { t \in sys.held : t.kind \in {"resources", "connector", "encoder"} } = {}
        /\ ~sys.badFree

\* encoders of the resource list that can be queried and are the connector's
\* current one, or are among its supported ones
CurrentEncoders(conn) ==
    { i \in DOMAIN kernel.encoders :
        /\ kernel.encoders[i].obj # NULL
        /\ kernel.encoders[i].id = conn.encoder_id }

SupportedEncoders(conn) ==
    { i \in DOMAIN kernel.encoders :
        /\ kernel.encoders[i].obj # NULL
        /\ \E j \in DOMAIN conn.encoders : conn.encoders[j] = kernel.encoders[i].id }

\* C9: whenever the connector's current encoder is in the resource list it is
\* the encoder selected, whatever its position; a merely supported encoder is
\* selected only when the current one is not available; negotiation fails
\* with "No connected encoder found." exactly when neither kind exists.
C9_CurrentEncoderPreferred ==
    (InitReturned /\ sel.connector # NULL) =>
        LET conn == Deref(sel.connector)
        IN  /\ (sel.encoder # NULL /\ CurrentEncoders(conn) # {}) =>
                    Deref(sel.encoder).encoder_id = conn.encoder_id
            /\ (sel.error = "No connected encoder found.") <=>
                    (CurrentEncoders(conn) \cup SupportedEncoders(conn) = {})

\* C10: after a successful negotiation exactly one display is registered; its
\* desktop mode and current mode are both the resolved mode: the saved CRTC's
\* mode when mode_valid is set, the selected connector's modes[0] otherwise;
\* mode enumeration yields nothing but that mode.
C10_SingleResolvedMode ==
    (phase \in {"inited", "quit"} /\ sel.ret = 0) =>
        LET resolved == IF CapturedCrtc.mode_valid # 0 THEN CapturedCrtc.mode
                        ELSE Deref(sel.connector).modes[1]
            sdlmode == [w |-> resolved.hdisplay, h |-> resolved.vdisplay,
                        refresh_rate |-> resolved.vrefresh,
                        format |-> "SDL_PIXELFORMAT_ARGB8888", driverdata |-> NULL]
        IN  /\ Len(displays) = 1
            /\ displays[1].desktop_mode = sdlmode
            /\ displays[1].current_mode = sdlmode
            /\ displays[1].display_modes \subseteq {sdlmode}
            /\ dispdata.mode = resolved

\* the saved CRTC reports an invalid mode, the connector's first mode is
\* exposed and has been enumerated
C10_Witness ==
    /\ phase = "inited"
    /\ dispdata.saved_crtc # NULL
    /\ Deref(dispdata.saved_crtc).mode_valid = 0
    /\ Len(displays) = 1
    /\ displays[1].current_mode.w = Deref(sel.connector).modes[1].hdisplay
    /\ displays[1].current_mode.w # Deref(dispdata.saved_crtc).mode.hdisplay
    /\ displays[1].display_modes # {}

\* ------------------------------------------------------------------------
\* Properties of device discovery (SpecEnum)
\* ------------------------------------------------------------------------
\* indices of the card entries present whose probe succeeds
UsableCards ==
    { n \in CardIndices :
        CardName(n) \in dri.entries /\ check_modestting(dri, n).available }

\* C6: with the directory readable, get_driindex returns the lowest index of
\* a present card whose probe succeeds, and -ENOENT exactly when no present
\* card probes successfully.
C6_LowestUsableCard ==
    (enumOut.op = "get_driindex" /\ enumOut.opendirOK) =>
        IF UsableCards = {} THEN enumOut.ret = -ENOENT
        ELSE /\ enumOut.ret \in UsableCards
             /\ \A n \in UsableCards : enumOut.ret <= n

\* C7: check_modestting reports available if and only if the card opens, its
\* resources are queried (the DRM symbols load and drmModeGetResources
\* answers a list) and the list has at least one connector, one encoder and
\* one CRTC.
C7_ProbeAvailableIff ==
    enumOut.op = "check_modestting" =>
        LET i == enumOut.arg
            opens == dri.isdir /\ i \in DOMAIN dri.nodes /\ dri.nodes[i].openable
            queried == opens /\ dri.libdrm /\ dri.nodes[i].res # NULL
        IN  (enumOut.ret = 1) <=>
                /\ queried
                /\ Deref(dri.nodes[i].res).count_connectors >= 1
                /\ Deref(dri.nodes[i].res).count_encoders >= 1
                /\ Deref(dri.nodes[i].res).count_crtcs >= 1

\* a card that opens and answers the query, with connectors and encoders but
\* no CRTC, probed and reported unavailable
C7_Witness ==
    /\ enumOut.op = "check_modestting"
    /\ enumOut.ret = 0
    /\ enumOut.probe.opens = 1 /\ enumOut.probe.gets = 1
    /\ Deref(dri.nodes[enumOut.arg].res).count_connectors = 1
    /\ Deref(dri.nodes[enumOut.arg].res).count_encoders = 1
    /\ Deref(dri.nodes[enumOut.arg].res).count_crtcs = 0

\* ------------------------------------------------------------------------
\* Windows, framebuffers and page flips (SpecWin)
\* ------------------------------------------------------------------------
\* C1: while KMSDRM_DestroyWindow runs, the current buffer, the next buffer,
\* the EGL surface and the gbm surface are released only while the window's
\* waiting_for_flip is clear: in no state has the running destruction
\* released one of them with the flip still pending.
C1_ReleaseOnlyWhenIdle ==
    (/\ pcall.fn = "KMSDRM_DestroyWindow"
     /\ window.driverdata # NULL
     /\ pcall.released # <<>>)
        => ~Windata.waiting_for_flip

\* C4: waiting_for_flip of a window goes from set to clear only in a turn of
\* the loop of KMSDRM_WaitPageFlip whose poll succeeded, reported POLLIN
\* without POLLHUP or POLLERR, and whose drmHandleEvent found a
\* flip-completion event; no timeout, poll error, hangup or other wake-up
\* and no other operation clears it.
C4_FlagClearedOnlyByHandler ==
    [][ (/\ window.driverdata # NULL
         /\ window'.driverdata # NULL
         /\ Windata.waiting_for_flip
         /\ ~Deref(window'.driverdata).waiting_for_flip)
            => (/\ pcall.pc = "loop"
                /\ pcall'.last.ret > 0
                /\ "POLLIN" \in pcall'.last.revents
                /\ pcall'.last.revents \cap {"POLLHUP", "POLLERR"} = {}
                /\ pcall'.last.event = "flip_complete") ]_vars

\* the flip handler has just cleared the flag inside KMSDRM_WaitPageFlip
C4_Witness ==
    /\ pcall.pc = "loop"
    /\ pcall.dispatched
    /\ pcall.last.event = "flip_complete"
    /\ window.driverdata # NULL
    /\ ~Windata.waiting_for_flip

\* C5: once KMSDRM_FBFromBO has succeeded on a buffer object, the buffer
\* keeps that framebuffer metadata for as long as it lives, and every later
\* KMSDRM_FBFromBO on it returns that same metadata (same framebuffer id)
\* without calling drmModeAddFB.
C5_FBFromBOIdempotent ==
    [][ \A b \in DOMAIN bos \cap DOMAIN bos' :
            bos[b].user_data # NULL
            => (/\ bos'[b].user_data = bos[b].user_data
                /\ (pcall'.fn = "KMSDRM_FBFromBO" /\ pcall'.fb.bo = b)
                        => (/\ pcall'.fb.ret = bos[b].user_data
                            /\ Deref(pcall'.fb.ret).fb_id
                                    = Deref(bos[b].user_data).fb_id
                            /\ ~pcall'.fb.addfb)) ]_vars

\* a second KMSDRM_FBFromBO on a buffer that already had its framebuffer
C5_Witness ==
    /\ pcall.fn = "KMSDRM_FBFromBO"
    /\ pcall.fb.had # NULL
    /\ pcall.fb.ret = pcall.fb.had
    /\ pcall.fb.bo \in DOMAIN bos
    /\ bos[pcall.fb.bo].user_data = pcall.fb.had

\* ------------------------------------------------------------------------
\* Waiting for a page flip (SpecWin)
\* ------------------------------------------------------------------------
\* the last poll of the call timed out
TimedOut(p) == p.ret = 0 /\ p.revents = {}

\* the last poll reported the descriptor readable, without hangup or error,
\* and drmHandleEvent found no flip-completion event
OtherWakeUp(p) ==
    /\ p.ret > 0
    /\ "POLLIN" \in p.revents
    /\ p.revents \cap {"POLLHUP", "POLLERR"} = {}
    /\ p.event = "other"

\* a call that has polled, on a window that still has its data
Polled ==
    /\ pcall.fn \in {"KMSDRM_WaitPageFlip", "KMSDRM_DestroyWindow"}
    /\ pcall.polled
    /\ window.driverdata # NULL

\* C11 as stated: a wake-up of KMSDRM_WaitPageFlip on a pending flip that is
\* no flip completion, be it a timeout or a readable event whose dispatch
\* does not run the flip handler, makes the call return SDL_FALSE with
\* waiting_for_flip still set.
C11_NonCompletionReturnsFailure ==
    (Polled /\ (TimedOut(pcall.last) \/ OtherWakeUp(pcall.last))) =>
        /\ pcall.pc # "loop"
        /\ pcall.result = "SDL_FALSE"
        /\ Windata.waiting_for_flip

\* C11 amended: a timeout makes KMSDRM_WaitPageFlip return SDL_FALSE with
\* waiting_for_flip still set; a readable event whose dispatch does not run
\* the flip handler leaves waiting_for_flip set and the call in its loop,
\* about to poll again, without a result.
C11_TimeoutFailsOtherEventRetries ==
    /\ (Polled /\ TimedOut(pcall.last)) =>
        /\ pcall.pc # "loop"
        /\ pcall.result = "SDL_FALSE"
        /\ Windata.waiting_for_flip
    /\ (Polled /\ OtherWakeUp(pcall.last)) =>
        /\ pcall.pc = "loop"
        /\ pcall.result = "none"
        /\ pcall.dispatched
        /\ Windata.waiting_for_flip

\* the call is back in its loop after a readable event that was no flip
\* completion, the flip still pending
C11_Witness ==
    /\ pcall.fn = "KMSDRM_WaitPageFlip"
    /\ pcall.pc = "loop"
    /\ pcall.polled
    /\ OtherWakeUp(pcall.last)
    /\ pcall.timeout = 16
    /\ Windata.waiting_for_flip

\* C12: KMSDRM_WaitPageFlip entered on a window whose waiting_for_flip is
\* clear returns SDL_TRUE at once, for every timeout: poll is not called,
\* drmHandleEvent is not called and the window is left as it was.
C12_IdleWaitReturnsAtOnce ==
    [][ (/\ pcall.pc = "loop"
         /\ ~pcall.polled
         /\ ~Windata.waiting_for_flip)
            => (/\ pcall'.pc # "loop"
                /\ pcall'.result = "SDL_TRUE"
                /\ pcall'.timeout = pcall.timeout
                /\ ~pcall'.polled
                /\ ~pcall'.dispatched
                /\ pcall'.last = NoPoll
                /\ window' = window
                /\ bos' = bos
                /\ drm' = drm) ]_vars

\* KMSDRM_WaitPageFlip with timeout 0 returned SDL_TRUE on an idle window
\* without having polled
C12_Witness ==
    /\ pcall.fn = "KMSDRM_WaitPageFlip"
    /\ pcall.pc = "returned"
    /\ pcall.timeout = 0
    /\ pcall.result = "SDL_TRUE"
    /\ ~pcall.polled
    /\ ~pcall.dispatched
    /\ window.driverdata # NULL
    /\ ~Windata.waiting_for_flip

\* ------------------------------------------------------------------------
\* Destruction of a window with a pending flip (SpecWinLive)
\* ------------------------------------------------------------------------
NoDuplicates(q) == \A i, j \in DOMAIN q : i # j => q[i] # q[j]

\* KMSDRM_DestroyWindow waits on a pending flip
DestroyWaits ==
    /\ pcall.fn = "KMSDRM_DestroyWindow"
    /\ pcall.pc = "loop"
    /\ Windata.waiting_for_flip

\* KMSDRM_DestroyWindow has returned after the flip completed
DestroyCompleted ==
    /\ pcall.fn = "KMSDRM_DestroyWindow"
    /\ pcall.pc = "returned"
    /\ pcall.result = "SDL_TRUE"
    /\ pcall.last.event = "flip_complete"
    /\ window.driverdata = NULL
    /\ NoDuplicates(pcall.released)
    /\ "egl_surface" \in SeqRange(pcall.released)
    /\ ~drm.eglLive
    /\ ~drm.gsLive
    /\ bos = <<>>

\* the wait of KMSDRM_DestroyWindow ended on a poll error or a hangup
DestroyWaitFailed ==
    /\ pcall.fn = "KMSDRM_DestroyWindow"
    /\ pcall.result = "SDL_FALSE"

\* C13: when a window is destroyed while a flip is pending and the kernel
\* delivers the flip completion with no poll error or hangup before it,
\* KMSDRM_DestroyWindow completes: it has released the current and the next
\* buffer once each where held (after the two releases no buffer is locked
\* and both fields are NULL), destroyed the EGL surface once and cleared the
\* window's driver data. It waits with timeout -1 and no poll of it times
\* out.
C13_DestroyCompletesAfterFlip ==
    /\ DestroyWaits ~> (DestroyCompleted \/ DestroyWaitFailed)
    /\ [](pcall.fn = "KMSDRM_DestroyWindow" =>
            /\ (Running \/ pcall.polled) => pcall.timeout = -1
            /\ pcall.polled => ~TimedOut(pcall.last)
            /\ NoDuplicates(pcall.released)
            /\ pcall.pc \in {"egl_surface", "gs", "free"} =>
                /\ Windata.curr_bo = NULL
                /\ Windata.next_bo = NULL
                /\ \A b \in DOMAIN bos : ~bos[b].locked)

\* the destruction of a window that held two buffers and had a flip pending
\* has returned after the flip handler ran
C13_Witness ==
    /\ DestroyCompleted
    /\ pcall.dispatched
    /\ pcall.released = <<"curr_bo", "next_bo", "egl_surface", "gs">>

\* ------------------------------------------------------------------------
\* Framebuffers of buffer objects (SpecWin)
\* ------------------------------------------------------------------------
\* the buffer objects that carry framebuffer metadata, and the framebuffer of one
WithFb(bs) == { b \in DOMAIN bs : bs[b].user_data # NULL }

FbOf(bs, b) == Deref(bs[b].user_data).fb_id

\* C14: each buffer object has at most one live kernel framebuffer: the live
\* framebuffers are exactly those named by the metadata of the living
\* buffers, one per buffer, and metadata and release hook go together.
\* Metadata appears on a buffer only in a KMSDRM_FBFromBO on it that called
\* drmModeAddFB and returned it; new buffers have none. A framebuffer is
\* removed only when gbm_surface_destroy destroys the buffers, by one
\* drmModeRmFB per buffer that carried metadata, never earlier and never
\* twice; after that no framebuffer and no metadata is left.
C14_OneFramebufferPerBuffer ==
    /\ [](/\ drm.fbs = { FbOf(bos, b) : b \in WithFb(bos) }
          /\ \A b1, b2 \in WithFb(bos) : b1 # b2 => FbOf(bos, b1) # FbOf(bos, b2)
          /\ \A b \in DOMAIN bos :
                (bos[b].user_data # NULL)
                    <=> (bos[b].destroy_cb = "KMSDRM_FBDestroyCallback")
          /\ NoDuplicates(drm.rmFB))
    /\ [][ /\ (DOMAIN bos = {}) => WithFb(bos') = {}
           /\ \A b \in DOMAIN bos \cap DOMAIN bos' :
                (bos[b].user_data = NULL /\ bos'[b].user_data # NULL)
                    => (/\ pcall'.fn = "KMSDRM_FBFromBO"
                        /\ pcall'.fb.bo = b
                        /\ pcall'.fb.addfb
                        /\ pcall'.fb.ret = bos'[b].user_data
                        /\ FbOf(bos', b) \notin drm.fbs
                        /\ drm'.fbs = drm.fbs \cup {FbOf(bos', b)})
           /\ (Len(drm'.rmFB) > Len(drm.rmFB) \/ ~(drm.fbs \subseteq drm'.fbs))
                => (/\ pcall.pc = "gs"
                    /\ bos' = <<>>
                    /\ drm'.fbs = {}
                    /\ Len(drm'.rmFB) = Len(drm.rmFB) + Cardinality(WithFb(bos))
                    /\ SeqRange(drm'.rmFB) = SeqRange(drm.rmFB) \cup drm.fbs) ]_vars

\* the surface was destroyed with two buffers that carried framebuffers: two
\* drmModeRmFB calls, nothing left
C14_Witness ==
    /\ pcall.fn = "KMSDRM_DestroyWindow"
    /\ pcall.pc = "free"
    /\ Len(drm.rmFB) = 2
    /\ drm.fbs = {}
    /\ bos = <<>>

\* ------------------------------------------------------------------------
\* Resources of a probe (SpecEnum)
\* ------------------------------------------------------------------------
\* C15: whatever its outcome, a call of check_modestting has closed the
\* descriptor it opened exactly once and freed the resource list it obtained
\* exactly once before it returns; it opens the descriptor exactly when the
\* node opens and obtains a list exactly when the symbols load and the query
\* answers one.
C15_ProbeLeavesNothing ==
    enumOut.op = "check_modestting" =>
        LET i == enumOut.arg
            opens == OpensCard(dri, i)
            answers == opens /\ dri.libdrm /\ dri.nodes[i].res # NULL
        IN  /\ enumOut.probe.opens = (IF opens THEN 1 ELSE 0)
            /\ enumOut.probe.closes = enumOut.probe.opens
            /\ enumOut.probe.gets = (IF answers THEN 1 ELSE 0)
            /\ enumOut.probe.frees = enumOut.probe.gets
            /\ enumOut.probe.unloads = enumOut.probe.loads

\* a probe that opened the card and obtained a list whose counts were
\* insufficient has closed and freed both
C15_Witness ==
    /\ enumOut.op = "check_modestting"
    /\ enumOut.ret = 0
    /\ enumOut.probe.opens = 1 /\ enumOut.probe.closes = 1
    /\ enumOut.probe.gets = 1 /\ enumOut.probe.frees = 1
    /\ Deref(dri.nodes[enumOut.arg].res).count_encoders = 0

\* ------------------------------------------------------------------------
\* Connector and CRTC selection (Spec)
\* ------------------------------------------------------------------------
\* positions of the resource list whose connector can be queried, is
\* connected and advertises at least one mode
QualifyingConnectors ==
    { i \in DOMAIN kernel.connectors :
        /\ kernel.connectors[i].obj # NULL
        /\ Deref(kernel.connectors[i].obj).connection = "DRM_MODE_CONNECTED"
        /\ Len(Deref(kernel.connectors[i].obj).modes) > 0 }

\* C16: once the resource list is obtained, KMSDRM_VideoInit selects the
\* first connector of the list, in list order, that is connected and has at
\* least one mode; every other connector it looked at (unqueryable,
\* disconnected or without modes) is not held any more; it fails with "No
\* currently active connector found." exactly when no connector qualifies.
C16_FirstActiveConnector ==
    (InitReturned /\ sel.resources) =>
        /\ (sel.error = "No currently active connector found.")
                <=> (QualifyingConnectors = {})
        /\ QualifyingConnectors = {} => sel.connector = NULL
        /\ QualifyingConnectors # {} =>
            LET first == CHOOSE i \in QualifyingConnectors :
                            \A j \in QualifyingConnectors : i <= j
            IN  /\ sel.connector = kernel.connectors[first].obj
                /\ phase = "inited" => dispdata.conn_id = kernel.connectors[first].id
        /\ \A i \in DOMAIN kernel.connectors \ QualifyingConnectors :
                Tok("connector", kernel.connectors[i].id) \notin sys.held
        /\ ~sys.badFree

\* the second connector of the list was selected after a connected one
\* without modes was skipped
C16_Witness ==
    /\ phase = "inited"
    /\ Len(kernel.connectors) = 2
    /\ kernel.connectors[1].obj # NULL
    /\ Deref(kernel.connectors[1].obj).connection = "DRM_MODE_CONNECTED"
    /\ Deref(kernel.connectors[1].obj).modes = <<>>
    /\ sel.connector = kernel.connectors[2].obj
    /\ dispdata.conn_id = ConnectorId(2)
    /\ Tok("connector", ConnectorId(1)) \notin sys.held

\* the encoder selected, as the kernel reported it (before KMSDRM_VideoInit
\* reassigns its crtc_id)
ReportedEncoder == Deref(Lookup(kernel.encoders, Deref(sel.encoder).encoder_id))

\* positions (1-based) of the CRTC list whose index bit is set in the mask
PossibleCrtcs(mask) ==
    { n \in DOMAIN kernel.crtcs : (mask \div (2 ^ (n - 1))) % 2 = 1 }

\* the CRTC the selection ends up querying: the encoder's current one when
\* the kernel answers for it, otherwise the first possible one of the list
\* ([id |-> 0, obj |-> NULL] when there is none)
ExpectedCrtc ==
    LET enc == ReportedEncoder
        possible == PossibleCrtcs(enc.possible_crtcs)
    IN  IF Lookup(kernel.crtcs, enc.crtc_id) # NULL
        THEN [id |-> enc.crtc_id, obj |-> Lookup(kernel.crtcs, enc.crtc_id)]
        ELSE IF possible = {} THEN [id |-> 0, obj |-> NULL]
        ELSE kernel.crtcs[CHOOSE n \in possible : \A m \in possible : n <= m]

\* C17: with an encoder selected, KMSDRM_VideoInit saves the configuration
\* of the encoder's current CRTC whenever the kernel answers for it; only
\* otherwise it takes the first CRTC of the resource list whose index bit is
\* set in possible_crtcs and queries that one. It fails with "No CRTC
\* found." exactly when neither query yields a configuration. On success
\* dispdata->crtc_id is the id of the CRTC whose configuration is saved.
C17_CrtcSelection ==
    (InitReturned /\ sel.encoder # NULL) =>
        /\ (sel.error = "No CRTC found.") <=> (ExpectedCrtc.obj = NULL)
        /\ phase = "inited" =>
            /\ dispdata.saved_crtc = ExpectedCrtc.obj
            /\ dispdata.crtc_id = ExpectedCrtc.id
            /\ dispdata.crtc_id = Deref(dispdata.saved_crtc).crtc_id
            /\ Deref(sel.encoder).crtc_id = dispdata.crtc_id
        /\ phase = "initfailed" => dispdata.saved_crtc = NULL

\* the encoder had no current CRTC and the second CRTC of the list, the
\* first one its mask allows, was taken
C17_Witness ==
    /\ phase = "inited"
    /\ sel.encoder # NULL
    /\ ReportedEncoder.crtc_id = 0
    /\ ReportedEncoder.possible_crtcs = 2
    /\ Len(kernel.crtcs) = 2
    /\ dispdata.crtc_id = kernel.crtcs[2].id
    /\ dispdata.saved_crtc = kernel.crtcs[2].obj

\* the poll failed, or reported a hangup or an error condition
PollFailed(p) == p.ret < 0 \/ p.revents \cap {"POLLHUP", "POLLERR"} # {}

\* C18: a turn of the loop of KMSDRM_WaitPageFlip whose poll fails or
\* reports POLLHUP or POLLERR, with or without POLLIN, ends the call with
\* SDL_FALSE; drmHandleEvent does not run in that turn and the window, its
\* waiting_for_flip still set, is left as it was.
C18_PollFailureReturnsFailure ==
    [][ (/\ pcall.pc = "loop"
         /\ Windata.waiting_for_flip
         /\ pcall'.polled
         /\ PollFailed(pcall'.last))
            => (/\ pcall'.pc # "loop"
                /\ pcall'.result = "SDL_FALSE"
                /\ pcall'.dispatched = pcall.dispatched
                /\ window' = window
                /\ Deref(window'.driverdata).waiting_for_flip) ]_vars

\* the descriptor was reported readable and hung up at once, with the flip
\* completion to read: the call returned SDL_FALSE without dispatching
C18_Witness ==
    /\ pcall.fn = "KMSDRM_WaitPageFlip"
    /\ pcall.pc = "returned"
    /\ pcall.result = "SDL_FALSE"
    /\ pcall.last.revents = {"POLLIN", "POLLHUP"}
    /\ pcall.last.event = "flip_complete"
    /\ ~pcall.dispatched
    /\ Windata.waiting_for_flip

\* ------------------------------------------------------------------------
\* Window creation (SpecWin)
\* ------------------------------------------------------------------------
\* C19: a KMSDRM_CreateWindow that fails returns -1 with no gbm surface and
\* no EGL surface of its own left, its window data freed, the window's
\* driverdata still NULL and the window's focus as it was. One that succeeds
\* returns 0 with driverdata set and mouse and keyboard focus given. Nothing
\* but a successful KMSDRM_CreateWindow sets driverdata or gives focus.
C19_CreateWindowFailureLeavesNothing ==
    [][ /\ (pcall'.fn = "KMSDRM_CreateWindow" /\ pcall'.result = "-1") =>
            /\ window'.driverdata = NULL
            /\ window'.mouse_focus = window.mouse_focus
            /\ window'.keyboard_focus = window.keyboard_focus
            /\ ~drm'.gsLive
            /\ ~drm'.eglLive
            /\ ~drm'.windataLive
            /\ bos' = <<>>
        /\ (pcall'.fn = "KMSDRM_CreateWindow" /\ pcall'.result = "0") =>
            /\ window'.driverdata # NULL
            /\ window'.mouse_focus
            /\ window'.keyboard_focus
            /\ drm'.windataLive
            /\ drm'.eglLive
        /\ (\/ window.driverdata = NULL /\ window'.driverdata # NULL
            \/ ~window.mouse_focus /\ window'.mouse_focus
            \/ ~window.keyboard_focus /\ window'.keyboard_focus)
                => (pcall'.fn = "KMSDRM_CreateWindow" /\ pcall'.result = "0") ]_vars

\* the first KMSDRM_CreateWindow failed at the EGL surface, after the window
\* was sized and the GL library loaded: no data, no surface, no focus
C19_Witness ==
    /\ pcall.fn = "KMSDRM_CreateWindow"
    /\ pcall.result = "-1"
    /\ drm.egl_data
    /\ "SDL_WINDOW_OPENGL" \in window.flags
    /\ window.driverdata = NULL
    /\ ~window.mouse_focus
    /\ ~window.keyboard_focus
    /\ ~drm.gsLive /\ ~drm.eglLive /\ ~drm.windataLive

\* C20: a KMSDRM_FBFromBO that returns NULL (SDL_calloc or drmModeAddFB
\* failed) leaves the buffer without metadata and without release hook and
\* the kernel's framebuffers as they were; the next KMSDRM_FBFromBO on that
\* buffer finds no metadata and goes to drmModeAddFB again (unless its own
\* allocation fails); the destruction of the surface issues drmModeRmFB only
\* for buffers that carry metadata, so none for a failed attempt.
C20_FailedFBFromBOLeavesNothing ==
    [][ /\ (pcall'.fn = "KMSDRM_FBFromBO" /\ pcall'.fb.ret = NULL) =>
            /\ pcall'.fb.had = NULL
            /\ bos'[pcall'.fb.bo].user_data = NULL
            /\ bos'[pcall'.fb.bo].destroy_cb = "none"
            /\ drm'.fbs = drm.fbs
            /\ drm'.rmFB = drm.rmFB
        /\ (/\ pcall.fn = "KMSDRM_FBFromBO" /\ pcall.fb.ret = NULL
            /\ pcall'.fn = "KMSDRM_FBFromBO" /\ pcall'.fb.bo = pcall.fb.bo) =>
            /\ pcall'.fb.had = NULL
            /\ pcall'.fb.addfb \/ pcall'.fb.ret = NULL
        /\ (pcall.pc = "gs") =>
            Len(drm'.rmFB) = Len(drm.rmFB) + Cardinality(WithFb(bos)) ]_vars

\* drmModeAddFB failed: NULL returned, the buffer as gbm made it
C20_Witness ==
    /\ pcall.fn = "KMSDRM_FBFromBO"
    /\ pcall.fb.addfb
    /\ pcall.fb.ret = NULL
    /\ bos[pcall.fb.bo].user_data = NULL
    /\ bos[pcall.fb.bo].destroy_cb = "none"
    /\ drm.fbs = {}

\* C21: whenever KMSDRM_WaitPageFlip returns (called on its own or from
\* KMSDRM_DestroyWindow), its result agrees with the window at that moment:
\* SDL_TRUE exactly when waiting_for_flip is clear, SDL_FALSE exactly when
\* waiting_for_flip is still set.
C21_ResultAgreesWithFlag ==
    [][ (pcall.pc = "loop" /\ pcall'.pc # "loop") =>
            /\ pcall'.result \in {"SDL_TRUE", "SDL_FALSE"}
            /\ (pcall'.result = "SDL_TRUE") =>
                   ~Deref(window'.driverdata).waiting_for_flip
            /\ (pcall'.result = "SDL_FALSE") =>
                   Deref(window'.driverdata).waiting_for_flip ]_vars

\* a wait that dispatched an event that was no flip completion, polled again
\* and ran out of time: SDL_FALSE, the flip still pending
C21_Witness ==
    /\ pcall.fn = "KMSDRM_WaitPageFlip"
    /\ pcall.pc = "returned"
    /\ pcall.result = "SDL_FALSE"
    /\ pcall.dispatched
    /\ TimedOut(pcall.last)
    /\ window.driverdata # NULL
    /\ Windata.waiting_for_flip

\* the releasing and restoring calls a step adds to the trace
StepTrace == SubSeq(sys'.trace, Len(sys.trace) + 1, Len(sys'.trace))

\* a step of KMSDRM_VideoQuit with the display descriptor of display 0
QuitStep ==
    /\ sys'.quits = sys.quits + 1
    /\ GetDisplayDriverData0(displays, dispdata) # NULL

\* the teardown of an initialised device, in the order of the calls
TeardownOrder ==
    << Op("drmModeSetCrtc", "crtc"), Op("free", "crtc"),
       Op("gbm_device_destroy", "gbm"), Op("close", "fd") >>

\* C22: the first KMSDRM_VideoQuit after a successful init makes its calls
\* in one order: drmModeSetCrtc on the descriptor while it is open, then
\* drmModeFreeCrtc of the saved CRTC, then gbm_device_destroy, then close.
\* After every quit saved_crtc and gbm are NULL and drm_fd is -1. A quit
\* that follows a quit makes none of these calls: no drmModeSetCrtc, no
\* free, no destroy, no close.
C22_QuitOrderedAndIdempotent ==
    [][ QuitStep =>
            /\ phase = "inited" =>
                /\ StepTrace = TeardownOrder
                /\ Len(sys'.setCrtc) = Len(sys.setCrtc) + 1
                /\ sys'.setCrtc[Len(sys'.setCrtc)].fd = viddata.drm_fd
                /\ viddata.drm_fd \in sys.openFds
            /\ phase = "quit" =>
                /\ StepTrace = <<>>
                /\ sys'.setCrtc = sys.setCrtc
                /\ sys'.frees = sys.frees
                /\ sys'.gbmDestroys = sys.gbmDestroys
                /\ sys'.closes = sys.closes
                /\ sys'.held = sys.held
            /\ dispdata'.saved_crtc = NULL
            /\ viddata'.gbm = NULL
            /\ viddata'.drm_fd = -1
            /\ sys'.openFds = {}
            /\ ~sys'.gbmLive
            /\ sys'.badFree = sys.badFree ]_vars

\* quit ran twice after a successful init whose restore the kernel accepted:
\* the trace ends with the one teardown
C22_Witness ==
    /\ phase = "quit" /\ sel.ret = 0
    /\ sys.quits = 2
    /\ Len(sys.setCrtc) = 1 /\ sys.setCrtc[1].ok
    /\ Len(sys.trace) >= 4
    /\ SubSeq(sys.trace, Len(sys.trace) - 3, Len(sys.trace)) = TeardownOrder
    /\ dispdata.saved_crtc = NULL /\ viddata.gbm = NULL /\ viddata.drm_fd = -1

\* C23: once KMSDRM_VideoInit has failed (no display registered, the display
\* descriptor freed) a KMSDRM_VideoQuit reads through no absent or freed
\* display descriptor, issues no drmModeSetCrtc, and closes no descriptor,
\* destroys no allocator and frees nothing a second time.
C23_QuitSafeAfterFailedInit ==
    (sel.ret # 0 /\ sys.quits > 0) =>
        /\ phase # "crashed"
        /\ ~sys.nullDeref
        /\ sys.setCrtc = <<>>
        /\ sys.closes = sys.opens
        /\ ~sys.badFree

====
